---- MODULE Spec2Model ----
(***************************************************************************)
(* Court Document Analyzer (src/app.py).                                   *)
(*                                                                         *)
(* A text is a sequence of one-character strings.  The regular expressions *)
(* of app.py are written as syntax trees and matched by a backtracking     *)
(* matcher with the priority order of Python's re module (greedy before    *)
(* shorter, lazy before longer, alternatives left to right), so that       *)
(* re.search, re.finditer and re.findall return the match Python returns.  *)
(***************************************************************************)
EXTENDS Integers, Sequences, FiniteSets, TLC

(***************************************************************************)
(* Bounds of the model.                                                    *)
(***************************************************************************)
MaxFiles == 3
MaxFrags == 2

(***************************************************************************)
(* Characters.                                                             *)
(***************************************************************************)
Upper == {"A","B","C","D","E","F","G","H","I","J","K","L","M",
          "N","O","P","Q","R","S","T","U","V","W","X","Y","Z"}
Lower == {"a","b","c","d","e","f","g","h","i","j","k","l","m",
          "n","o","p","q","r","s","t","u","v","w","x","y","z"}
Digit == {"0","1","2","3","4","5","6","7","8","9"}
Space == {" ", "\n", "\t"}
Punct == {"(", ")", ".", ":", ",", "/", "-"}
Char  == Upper \cup Lower \cup Digit \cup Space \cup Punct

UpperSeq == <<"A","B","C","D","E","F","G","H","I","J","K","L","M",
              "N","O","P","Q","R","S","T","U","V","W","X","Y","Z">>
LowerSeq == <<"a","b","c","d","e","f","g","h","i","j","k","l","m",
              "n","o","p","q","r","s","t","u","v","w","x","y","z">>

\* str.lower() on one character
LowerTable ==
    [c \in Char |-> IF c \in Upper
                    THEN LowerSeq[CHOOSE k \in 1..26 : UpperSeq[k] = c]
                    ELSE c]

LowerChar(c) == LowerTable[c]

\* str.lower()
lower(s) == [k \in 1..Len(s) |-> LowerChar(s[k])]

\* "sub in s"
Contains(s, sub) ==
    \E k \in 1..(Len(s) - Len(sub) + 1) : SubSeq(s, k, k + Len(sub) - 1) = sub

\* str.strip()
RECURSIVE lstrip(_)
lstrip(s) == IF s # <<>> /\ Head(s) \in Space THEN lstrip(Tail(s)) ELSE s

RECURSIVE rstrip(_)
rstrip(s) ==
    IF s # <<>> /\ s[Len(s)] \in Space THEN rstrip(SubSeq(s, 1, Len(s) - 1)) ELSE s

strip(s) == rstrip(lstrip(s))

\* str.split('\n')
RECURSIVE split_lines(_)
split_lines(s) ==
    IF \E k \in 1..Len(s) : s[k] = "\n"
    THEN LET k == CHOOSE j \in 1..Len(s) :
                     s[j] = "\n" /\ \A h \in 1..(j - 1) : s[h] # "\n"
         IN  <<SubSeq(s, 1, k - 1)>> \o split_lines(SubSeq(s, k + 1, Len(s)))
    ELSE <<s>>

(***************************************************************************)
(* Regular expressions: syntax trees.                                      *)
(***************************************************************************)
Inf == -1

Lit(s)           == [t |-> "lit", s |-> s]
Set(S)           == [t |-> "set", S |-> S]
Dot              == [t |-> "dot"]
Cat(list)        == [t |-> "cat", list |-> list]
Alt(list)        == [t |-> "alt", list |-> list]
Rep(a, lo, hi)   == [t |-> "rep", a |-> a, lo |-> lo, hi |-> hi, greedy |-> TRUE]
Lazy(a, lo, hi)  == [t |-> "rep", a |-> a, lo |-> lo, hi |-> hi, greedy |-> FALSE]
Grp(n, a)        == [t |-> "grp", n |-> n, a |-> a]
Look(a)          == [t |-> "look", a |-> a]
Dollar           == [t |-> "dollar"]
EndZ             == [t |-> "endz"]
GrpOpen(n)       == [t |-> "open", n |-> n]
GrpClose(n)      == [t |-> "close", n |-> n]

Plus(a)     == Rep(a, 1, Inf)
Star(a)     == Rep(a, 0, Inf)
Opt(a)      == Rep(a, 0, 1)
LazyStar(a) == Lazy(a, 0, Inf)

\* flags
NoFlags    == [ignorecase |-> FALSE, dotall |-> FALSE]
IgnoreCase == [ignorecase |-> TRUE,  dotall |-> FALSE]
DotAll     == [ignorecase |-> FALSE, dotall |-> TRUE]
DotAllIgnoreCase == [ignorecase |-> TRUE, dotall |-> TRUE]

CharEq(c, d, flags) ==
    c = d \/ (flags.ignorecase /\ LowerChar(c) = LowerChar(d))

CharIn(c, S, flags) ==
    c \in S \/ (flags.ignorecase /\ \E d \in S : LowerChar(c) = LowerChar(d))

NoMatch   == [ok |-> FALSE]
NoGroups  == [n \in 1..2 |-> <<0, 0>>]

Dec(hi) == IF hi = Inf THEN Inf ELSE hi - 1

\* whether the single-character node a (a set or a dot) matches character c
CharMatches(a, c, flags) ==
    IF a.t = "set" THEN CharIn(c, a.S, flags) ELSE (flags.dotall \/ c # "\n")

\* the number of consecutive characters from position pos that a matches
RunLength(a, pos, txt, flags) ==
    LET stops(k) == k = Len(txt) + 1 \/ ~CharMatches(a, txt[k], flags)
    IN  (CHOOSE k \in pos..(Len(txt) + 1) :
            stops(k) /\ \A h \in pos..(k - 1) : ~stops(h)) - pos

\* the single-character node that the first character matched by stack has to
\* match, or Anything when stack may match the empty text or is not that simple
Anything == [t |-> "any"]

RECURSIVE FirstChar(_)
FirstChar(stack) ==
    IF stack = <<>> THEN Anything
    ELSE LET n == Head(stack)
         IN  CASE n.t \in {"set", "dot"} -> n
               [] n.t = "lit" /\ n.s # <<>> -> Set({n.s[1]})
               [] n.t = "rep" /\ n.lo > 0 -> FirstChar(<<n.a>>)
               [] n.t \in {"open", "close"} -> FirstChar(Tail(stack))
               [] n.t = "grp" -> FirstChar(<<n.a>> \o Tail(stack))
               [] n.t = "cat" -> FirstChar(n.list \o Tail(stack))
               [] OTHER -> Anything

\* whether a match of a stack with first character a can start at position pos
CanStart(a, pos, txt, flags) ==
    a.t = "any" \/ (pos <= Len(txt) /\ CharMatches(a, txt[pos], flags))

\* the most characters that a repetition with upper bound hi takes out of a run
Most(run, hi) == IF hi = Inf \/ run < hi THEN run ELSE hi

\* the counts of characters that the repetition n of a single character can
\* take at position pos and after which a stack with first character first
\* can start
Counts(n, first, pos, txt, flags) ==
    {k \in n.lo..Most(RunLength(n.a, pos, txt, flags), n.hi) :
        CanStart(first, pos + k, txt, flags)}

\* among the counts after which the rest matched, the largest (greedy) or the
\* smallest (lazy)
BestTry(fits, greedy) ==
    IF fits = {} THEN NoMatch
    ELSE IF greedy
    THEN (CHOOSE x \in fits : \A y \in fits : y.k <= x.k).r
    ELSE (CHOOSE x \in fits : \A y \in fits : y.k >= x.k).r

(***************************************************************************)
(* The backtracking matcher: the first way, in priority order, to match    *)
(* the nodes of stack one after the other from position pos of txt.          *)
(***************************************************************************)
RECURSIVE Bt(_, _, _, _, _)
Bt(stack, pos, caps, txt, flags) ==
    IF stack = <<>>
    THEN [ok |-> TRUE, end |-> pos, caps |-> caps]
    ELSE
    LET n    == Head(stack)
        rest == Tail(stack)
    IN
    CASE n.t = "lit" ->
            IF /\ pos + Len(n.s) - 1 <= Len(txt)
               /\ \A k \in 1..Len(n.s) : CharEq(txt[pos + k - 1], n.s[k], flags)
            THEN Bt(rest, pos + Len(n.s), caps, txt, flags)
            ELSE NoMatch
      [] n.t = "set" ->
            IF pos <= Len(txt) /\ CharIn(txt[pos], n.S, flags)
            THEN Bt(rest, pos + 1, caps, txt, flags)
            ELSE NoMatch
      [] n.t = "dot" ->
            IF pos <= Len(txt) /\ (flags.dotall \/ txt[pos] # "\n")
            THEN Bt(rest, pos + 1, caps, txt, flags)
            ELSE NoMatch
      [] n.t = "cat" -> Bt(n.list \o rest, pos, caps, txt, flags)
      [] n.t = "alt" ->
            IF n.list = <<>>
            THEN NoMatch
            ELSE LET r == Bt(<<Head(n.list)>> \o rest, pos, caps, txt, flags)
                 IN  IF r.ok THEN r
                     ELSE Bt(<<Alt(Tail(n.list))>> \o rest, pos, caps, txt, flags)
      [] n.t = "rep" /\ n.a.t \in {"set", "dot"} ->
            \* a repeated single character: the rest is tried after every
            \* count that can be taken
            BestTry({x \in {[k |-> k, r |-> Bt(rest, pos + k, caps, txt, flags)] :
                               k \in Counts(n, FirstChar(rest), pos, txt, flags)} :
                        x.r.ok},
                    n.greedy)
      [] n.t = "rep" /\ n.a.t \notin {"set", "dot"} ->
            LET more == <<n.a, [n EXCEPT !.lo = IF n.lo > 0 THEN n.lo - 1 ELSE 0,
                                        !.hi = Dec(n.hi)]>> \o rest
            IN
            IF n.lo > 0 THEN Bt(more, pos, caps, txt, flags)
            ELSE IF n.hi = 0 THEN Bt(rest, pos, caps, txt, flags)
            ELSE IF n.greedy
                 THEN LET r == Bt(more, pos, caps, txt, flags)
                      IN  IF r.ok THEN r ELSE Bt(rest, pos, caps, txt, flags)
                 ELSE LET r == Bt(rest, pos, caps, txt, flags)
                      IN  IF r.ok THEN r ELSE Bt(more, pos, caps, txt, flags)
      [] n.t = "grp" ->
            Bt(<<GrpOpen(n.n), n.a, GrpClose(n.n)>> \o rest, pos, caps, txt, flags)
      [] n.t = "open" ->
            Bt(rest, pos, [caps EXCEPT ![n.n] = <<pos, pos>>], txt, flags)
      [] n.t = "close" ->
            Bt(rest, pos, [caps EXCEPT ![n.n] = <<caps[n.n][1], pos>>], txt, flags)
      [] n.t = "look" ->
            IF Bt(<<n.a>>, pos, caps, txt, flags).ok
            THEN Bt(rest, pos, caps, txt, flags)
            ELSE NoMatch
      [] n.t = "dollar" ->
            IF pos = Len(txt) + 1 \/ (pos = Len(txt) /\ txt[pos] = "\n")
            THEN Bt(rest, pos, caps, txt, flags)
            ELSE NoMatch
      [] n.t = "endz" ->
            IF pos = Len(txt) + 1
            THEN Bt(rest, pos, caps, txt, flags)
            ELSE NoMatch

\* the match object of a run r of the matcher from position pos
AsMatch(r, pos) ==
    IF r.ok
    THEN [ok |-> TRUE, start |-> pos, end |-> r.end, caps |-> r.caps]
    ELSE NoMatch

\* pattern.match at position pos: a match object or NoMatch
MatchAt(re, txt, flags, pos) ==
    AsMatch(Bt(<<re>>, pos, NoGroups, txt, flags), pos)

\* the matches of the pattern at the positions of txt where it matches
AllMatches(re, txt, flags) ==
    {m \in {MatchAt(re, txt, flags, pos) : pos \in 1..(Len(txt) + 1)} : m.ok}

\* the leftmost of the matches ms that starts at position from or later
Leftmost(ms, from) ==
    IF \E m \in ms : m.start >= from
    THEN CHOOSE m \in ms :
             m.start >= from /\ \A o \in ms : o.start >= from => m.start <= o.start
    ELSE NoMatch

\* re.search(pattern, txt, flags): the leftmost match
search(re, txt, flags) == Leftmost(AllMatches(re, txt, flags), 1)

\* the non-overlapping matches among ms, left to right, from position from
RECURSIVE NonOverlapping(_, _)
NonOverlapping(ms, from) ==
    LET m == Leftmost(ms, from)
    IN  IF ~m.ok
        THEN <<>>
        ELSE <<m>> \o NonOverlapping(ms, IF m.end > m.start THEN m.end ELSE m.end + 1)

\* re.finditer(pattern, txt, flags)
finditer(re, txt, flags) == NonOverlapping(AllMatches(re, txt, flags), 1)

\* whether group n took part in the match (match.group(n) is not None)
has_group(m, n) == n = 0 \/ m.caps[n] # <<0, 0>>

\* match.group(n), for a group that took part in the match
group(m, txt, n) ==
    IF n = 0
    THEN SubSeq(txt, m.start, m.end - 1)
    ELSE SubSeq(txt, m.caps[n][1], m.caps[n][2] - 1)

\* match.group(n) of each match of the list ms
groups(ms, txt, n) == [k \in 1..Len(ms) |-> group(ms[k], txt, n)]

\* re.findall for a pattern with one group: the list of group(1)
findall(re, txt, flags) == groups(finditer(re, txt, flags), txt, 1)


(***************************************************************************)
(* Exceptions of the field extractors.  A group that took no part in a     *)
(* match is None in Python: .strip() on it raises AttributeError and the   *)
(* pydantic models reject it for a str field.                              *)
(***************************************************************************)
groups_missing(ms, ns) ==
    \E k \in 1..Len(ms) : \E n \in ns : ~has_group(ms[k], n)

match_missing(m, ns) == m.ok /\ \E n \in ns : ~has_group(m, n)

(***************************************************************************)
(* extract_case_numbers                                                    *)
(***************************************************************************)
None == [is_none |-> TRUE]

Ws1 == Plus(Set(Space))
Ws0 == Star(Set(Space))

\* (\d+)
Number == Plus(Set(Digit))
\* (\d+(?:-\d+)?)
NumberRange == Cat(<<Plus(Set(Digit)), Opt(Cat(<<Lit(<<"-">>), Plus(Set(Digit))>>))>>)
\* (\d{4})
Year == Rep(Set(Digit), 4, 4)

patterns == <<
    \* Appeal\s+\(civil\)\s+(\d+)\s+of\s+(\d{4})
    Cat(<<Lit(<<"A","p","p","e","a","l">>), Ws1, Lit(<<"(","c","i","v","i","l",")">>), Ws1, Grp(1, Number),
          Ws1, Lit(<<"o","f">>), Ws1, Grp(2, Year)>>),
    \* Civil\s+Appeal\s+No\.\s*(\d+(?:-\d+)?)\s+of\s+(\d{4})
    Cat(<<Lit(<<"C","i","v","i","l">>), Ws1, Lit(<<"A","p","p","e","a","l">>), Ws1, Lit(<<"N","o",".">>), Ws0,
          Grp(1, NumberRange), Ws1, Lit(<<"o","f">>), Ws1, Grp(2, Year)>>),
    \* Transfer\s+Case\s+\(Civil\)\s+Nos\.\s*(\d+(?:-\d+)?)\s+of\s+(\d{4})
    Cat(<<Lit(<<"T","r","a","n","s","f","e","r">>), Ws1, Lit(<<"C","a","s","e">>), Ws1, Lit(<<"(","C","i","v","i","l",")">>), Ws1,
          Lit(<<"N","o","s",".">>), Ws0, Grp(1, NumberRange), Ws1, Lit(<<"o","f">>), Ws1,
          Grp(2, Year)>>),
    \* Civil\s+Appeal\s+Nos\.\s*(\d+(?:-\d+)?)\s+of\s+(\d{4})
    Cat(<<Lit(<<"C","i","v","i","l">>), Ws1, Lit(<<"A","p","p","e","a","l">>), Ws1, Lit(<<"N","o","s",".">>), Ws0,
          Grp(1, NumberRange), Ws1, Lit(<<"o","f">>), Ws1, Grp(2, Year)>>)
>>

CaseNumber(type, nature, sequential_number, year, full_citation) ==
    [type |-> type, nature |-> nature, sequential_number |-> sequential_number,
     year |-> year, full_citation |-> full_citation]

\* (faulty variant) the primary match taken from the first pattern of the list that matches
RECURSIVE first_pattern_match(_, _)
first_pattern_match(p, txt) ==
    IF p > Len(patterns)
    THEN NoMatch
    ELSE LET m == search(patterns[p], txt, NoFlags)
         IN  IF m.ok THEN m ELSE first_pattern_match(p + 1, txt)

primary_match_any_pattern(txt) == first_pattern_match(1, txt)

\* (faulty variant) the primary match searched without regard to letter case
primary_match_ignorecase(txt) == search(patterns[1], txt, IgnoreCase)

\* primary_match = re.search(patterns[0], txt)
primary_match(txt) == search(patterns[1], txt, NoFlags)

\* f"Appeal (civil) {primary_match.group(1)} of {primary_match.group(2)}"
primary_full_citation(m, txt) ==
    <<"A","p","p","e","a","l"," ","(","c","i","v","i","l",")"," ">> \o group(m, txt, 1) \o <<" ","o","f"," ">> \o group(m, txt, 2)

\* case_numbers["primary"]: the CaseNumber built from primary_match, or None
primary_case_number(pm, txt) ==
    IF pm.ok
    THEN CaseNumber(<<"A","p","p","e","a","l">>, <<"c","i","v","i","l">>, group(pm, txt, 1), group(pm, txt, 2),
                    primary_full_citation(pm, txt))
    ELSE None

\* (faulty variant) the primary skipped by the position of its match, not by its text
skip_primary_by_span(p, m, pm, txt) ==
    p = 1 /\ pm.ok /\ m.start = pm.start

\* the test of the continue statement: skip the primary case number
skip_primary(p, m, pm, txt) ==
    p = 1 /\ pm.ok /\ group(m, txt, 0) = group(pm, txt, 0)

\* case_type, from the matched txt
case_type(g0) ==
    IF Contains(g0, <<"C","i","v","i","l"," ","A","p","p","e","a","l">>) THEN <<"C","i","v","i","l"," ","A","p","p","e","a","l">>
    ELSE IF Contains(g0, <<"T","r","a","n","s","f","e","r"," ","C","a","s","e">>) THEN <<"T","r","a","n","s","f","e","r"," ","C","a","s","e"," ","(","C","i","v","i","l",")">>
    ELSE <<"A","p","p","e","a","l">>

\* the CaseNumber appended for match m
related_case_number(m, txt) ==
    CaseNumber(case_type(group(m, txt, 0)), <<"c","i","v","i","l">>, group(m, txt, 1),
               group(m, txt, 2), group(m, txt, 0))

\* the matches of pattern p that the inner loop appends, in order
RECURSIVE related_of_matches(_, _, _, _)
related_of_matches(p, ms, pm, txt) ==
    IF ms = <<>>
    THEN <<>>
    ELSE (IF skip_primary(p, Head(ms), pm, txt)
          THEN <<>>
          ELSE <<related_case_number(Head(ms), txt)>>)
         \o related_of_matches(p, Tail(ms), pm, txt)

\* re.finditer(pattern, txt) for the patterns from pattern p on
RECURSIVE pattern_matches(_, _)
pattern_matches(p, txt) ==
    IF p > Len(patterns)
    THEN <<>>
    ELSE <<finditer(patterns[p], txt, NoFlags)>> \o pattern_matches(p + 1, txt)

\* the outer loop, for pattern in patterns, from pattern p on; ms[p] are the
\* matches of pattern p
RECURSIVE related_from(_, _, _, _)
related_from(p, ms, pm, txt) ==
    IF p > Len(patterns)
    THEN <<>>
    ELSE related_of_matches(p, ms[p], pm, txt) \o related_from(p + 1, ms, pm, txt)

\* case_numbers, from the primary match pm and the matches ms of the patterns;
\* raised: the call ends in an exception instead of returning
case_numbers_of(pm, ms, txt) ==
    [raised  |-> \/ match_missing(pm, {1, 2})
                 \/ \E p \in 1..Len(ms) : groups_missing(ms[p], {1, 2}),
     primary |-> primary_case_number(pm, txt),
     related |-> related_from(1, ms, pm, txt)]

extract_case_numbers(txt) ==
    case_numbers_of(primary_match(txt), pattern_matches(1, txt), txt)

(***************************************************************************)
(* extract_parties                                                         *)
(***************************************************************************)
\* (?:PETITIONER|APPELLANT):\s*(.*?)(?=RESPONDENT:|$)
petitioner_pattern ==
    Cat(<<Alt(<<Lit(<<"P","E","T","I","T","I","O","N","E","R">>), Lit(<<"A","P","P","E","L","L","A","N","T">>)>>), Lit(<<":">>), Ws0,
          Grp(1, LazyStar(Dot)),
          Look(Alt(<<Lit(<<"R","E","S","P","O","N","D","E","N","T",":">>), Dollar>>))>>)

\* (faulty variant) the respondent taken up to the end of the text: RESPONDENT:\s*(.*?)(?=$)
respondent_pattern_to_end ==
    Cat(<<Lit(<<"R","E","S","P","O","N","D","E","N","T",":">>), Ws0, Grp(1, LazyStar(Dot)), Look(Dollar)>>)

\* RESPONDENT:\s*(.*?)(?=DATE OF JUDGMENT:|$)
respondent_pattern ==
    Cat(<<Lit(<<"R","E","S","P","O","N","D","E","N","T",":">>), Ws0, Grp(1, LazyStar(Dot)),
          Look(Alt(<<Lit(<<"D","A","T","E"," ","O","F"," ","J","U","D","G","M","E","N","T",":">>), Dollar>>))>>)

\* WITH\s+(.*?)(?=WITH|\n\n|\Z)
consolidated_pattern ==
    Cat(<<Lit(<<"W","I","T","H">>), Ws1, Grp(1, LazyStar(Dot)),
          Look(Alt(<<Lit(<<"W","I","T","H">>), Lit(<<"\n","\n">>), EndZ>>))>>)

\* ([^\n]+)\s+(?:Versus|vs\.)\s+([^\n]+)
versus_pattern ==
    Cat(<<Grp(1, Plus(Set(Char \ {"\n"}))), Ws1,
          Alt(<<Lit(<<"V","e","r","s","u","s">>), Lit(<<"v","s",".">>)>>), Ws1,
          Grp(2, Plus(Set(Char \ {"\n"})))>>)

Party(name, role) == [name |-> name, role |-> role, description |-> None]

ConsolidatedCase(case_number, petitioner, respondent) ==
    [case_number |-> case_number, petitioner |-> petitioner,
     respondent |-> respondent]

\* parties["main"]
main_parties(petitioner_match, respondent_match, txt) ==
    (IF petitioner_match.ok
     THEN <<Party(strip(group(petitioner_match, txt, 1)), <<"P","e","t","i","t","i","o","n","e","r">>)>>
     ELSE <<>>)
    \o
    (IF respondent_match.ok
     THEN <<Party(strip(group(respondent_match, txt, 1)), <<"R","e","s","p","o","n","d","e","n","t">>)>>
     ELSE <<>>)

\* [p.name for p in parties["main"] if p.role == role]
main_names(main, role) ==
    {main[k].name : k \in {j \in 1..Len(main) : main[j].role = role}}

\* the loop over re.finditer(versus_pattern, txt)
RECURSIVE versus_cases(_, _, _)
versus_cases(ms, main, txt) ==
    IF ms = <<>>
    THEN <<>>
    ELSE LET petitioner == strip(group(Head(ms), txt, 1))
             respondent == strip(group(Head(ms), txt, 2))
         IN  (IF /\ petitioner \notin main_names(main, <<"P","e","t","i","t","i","o","n","e","r">>)
                 /\ respondent \notin main_names(main, <<"R","e","s","p","o","n","d","e","n","t">>)
              THEN <<ConsolidatedCase(<<"R","e","l","a","t","e","d"," ","C","a","s","e">>, petitioner, respondent)>>
              ELSE <<>>)
             \o versus_cases(Tail(ms), main, txt)

\* one iteration of "for i, line in enumerate(lines)"; k = i + 1
section_line(acc, lines, k) ==
    LET line == lines[k]
    IN  IF search(Lit(<<"C","i","v","i","l"," ","A","p","p","e","a","l"," ","N","o",".">>), line, NoFlags).ok
        THEN [acc EXCEPT !.case_number = strip(line)]
        ELSE IF Contains(line, <<".",".",".">>) /\ acc.petitioner = <<>>
        THEN [acc EXCEPT !.petitioner =
                  IF k > 1 THEN strip(lines[k - 1]) ELSE <<>>]
        ELSE IF Contains(line, <<"V","e","r","s","u","s">>) /\ k < Len(lines)
        THEN [acc EXCEPT !.respondent = strip(lines[k + 1])]
        ELSE acc

RECURSIVE section_lines(_, _, _)
section_lines(acc, lines, k) ==
    IF k > Len(lines)
    THEN acc
    ELSE section_lines(section_line(acc, lines, k), lines, k + 1)

\* if case_number and (petitioner or respondent): the case c is appended
section_case(c) ==
    IF c.case_number # <<>> /\ (c.petitioner # <<>> \/ c.respondent # <<>>)
    THEN <<c>>
    ELSE <<>>

\* the loop over consolidated_sections
RECURSIVE section_cases(_)
section_cases(sections) ==
    IF sections = <<>>
    THEN <<>>
    ELSE section_case(section_lines(ConsolidatedCase(<<>>, <<>>, <<>>),
                                    split_lines(strip(Head(sections))), 1))
         \o section_cases(Tail(sections))

\* parties, from the results of the four searches
parties_of(petitioner_match, respondent_match, consolidated_sections, versus_matches, txt) ==
    LET main == main_parties(petitioner_match, respondent_match, txt)
    IN  [raised |-> \/ match_missing(petitioner_match, {1})
                    \/ match_missing(respondent_match, {1})
                    \/ groups_missing(versus_matches, {1, 2}),
         main |-> main,
         consolidated |->
             versus_cases(versus_matches, main, txt)
             \o section_cases(consolidated_sections)]

extract_parties(txt) ==
    parties_of(search(petitioner_pattern, txt, DotAllIgnoreCase),
               search(respondent_pattern, txt, DotAllIgnoreCase),
               findall(consolidated_pattern, txt, DotAll),
               finditer(versus_pattern, txt, NoFlags),
               txt)

(***************************************************************************)
(* extract_judgment_date                                                   *)
(***************************************************************************)
\* \d{1,2}(?:st|nd|rd|th)?\s+[A-Za-z]+,\s+\d{4}
LongDate ==
    Cat(<<Rep(Set(Digit), 1, 2),
          Opt(Alt(<<Lit(<<"s","t">>), Lit(<<"n","d">>), Lit(<<"r","d">>), Lit(<<"t","h">>)>>)),
          Ws1, Plus(Set(Upper \cup Lower)), Lit(<<",">>), Ws1, Rep(Set(Digit), 4, 4)>>)

date_patterns == <<
    \* DATE OF JUDGMENT:\s*(\d{2}/\d{2}/\d{4})
    Cat(<<Lit(<<"D","A","T","E"," ","O","F"," ","J","U","D","G","M","E","N","T",":">>), Ws0,
          Grp(1, Cat(<<Rep(Set(Digit), 2, 2), Lit(<<"/">>), Rep(Set(Digit), 2, 2),
                       Lit(<<"/">>), Rep(Set(Digit), 4, 4)>>))>>),
    \* Dated:\s*(...)
    Cat(<<Lit(<<"D","a","t","e","d",":">>), Ws0, Grp(1, LongDate)>>),
    \* judgment delivered on\s*:\s*(...)
    Cat(<<Lit(<<"j","u","d","g","m","e","n","t"," ","d","e","l","i","v","e","r","e","d"," ","o","n">>), Ws0, Lit(<<":">>), Ws0, Grp(1, LongDate)>>)
>>

date_not_found == <<"D","a","t","e"," ","n","o","t"," ","f","o","u","n","d">>

RECURSIVE judgment_date_from(_, _)

\* the body of the loop for pattern p, match being the result of its search
judgment_date_of(match, p, txt) ==
    IF match.ok
    THEN [raised |-> match_missing(match, {1}),
          value  |-> strip(group(match, txt, 1))]
    ELSE judgment_date_from(p + 1, txt)

\* for pattern in date_patterns, from pattern p on
judgment_date_from(p, txt) ==
    IF p > Len(date_patterns)
    THEN [raised |-> FALSE, value |-> date_not_found]
    ELSE judgment_date_of(search(date_patterns[p], txt, IgnoreCase), p, txt)

\* (faulty variant) the date label that comes first in the text decides, not the
\* order of the patterns
extract_judgment_date_by_position(txt) ==
    LET hits == {m \in {search(date_patterns[p], txt, IgnoreCase) :
                           p \in 1..Len(date_patterns)} : m.ok}
    IN  IF hits = {}
        THEN [raised |-> FALSE, value |-> date_not_found]
        ELSE LET match == CHOOSE m \in hits : \A h \in hits : m.start <= h.start
             IN  [raised |-> match_missing(match, {1}),
                  value  |-> strip(group(match, txt, 1))]

extract_judgment_date(txt) == judgment_date_from(1, txt)

(***************************************************************************)
(* extract_case_background                                                 *)
(***************************************************************************)
\* (?=\n[A-Z\s]+:|\Z)
UntilHeading ==
    Look(Alt(<<Cat(<<Lit(<<"\n">>), Plus(Set(Upper \cup Space)), Lit(<<":">>)>>), EndZ>>))

background_patterns == <<
    \* The Constitutional validity of(.*?)(?:\n\d+\.|\Z)
    Cat(<<Lit(<<"T","h","e"," ","C","o","n","s","t","i","t","u","t","i","o","n","a","l"," ","v","a","l","i","d","i","t","y"," ","o","f">>), Grp(1, LazyStar(Dot)),
          Alt(<<Cat(<<Lit(<<"\n">>), Plus(Set(Digit)), Lit(<<".">>)>>), EndZ>>)>>),
    \* JUDGMENT\s+\n+(.*?)(?=\n[A-Z\s]+:|\Z)
    Cat(<<Lit(<<"J","U","D","G","M","E","N","T">>), Ws1, Plus(Lit(<<"\n">>)), Grp(1, LazyStar(Dot)),
          UntilHeading>>),
    \* (?:INTRODUCTION|BACKGROUND|FACTS)\s*\n+(.*?)(?=\n[A-Z\s]+:|\Z)
    Cat(<<Alt(<<Lit(<<"I","N","T","R","O","D","U","C","T","I","O","N">>), Lit(<<"B","A","C","K","G","R","O","U","N","D">>), Lit(<<"F","A","C","T","S">>)>>),
          Ws0, Plus(Lit(<<"\n">>)), Grp(1, LazyStar(Dot)), UntilHeading>>)
>>

\* JUDGMENT.*?\n+(.*?)(?=\n\n|\Z)
header_pattern ==
    Cat(<<Lit(<<"J","U","D","G","M","E","N","T">>), LazyStar(Dot), Plus(Lit(<<"\n">>)),
          Grp(1, LazyStar(Dot)), Look(Alt(<<Lit(<<"\n","\n">>), EndZ>>))>>)

\* ((?:The\s+)?[A-Z][a-z]+(?:\s+[A-Z][a-z]+)*\s+Act,\s+\d{4})
act_pattern ==
    Grp(1, Cat(<<Opt(Cat(<<Lit(<<"T","h","e">>), Ws1>>)), Set(Upper), Plus(Set(Lower)),
                 Star(Cat(<<Ws1, Set(Upper), Plus(Set(Lower))>>)),
                 Ws1, Lit(<<"A","c","t",",">>), Ws1, Rep(Set(Digit), 4, 4)>>))

RECURSIVE background_from(_, _)

\* the body of the loop for pattern p, match being the result of its search
background_of(match, p, txt) ==
    IF match.ok
    THEN [raised |-> match_missing(match, {1}),
          value  |-> strip(group(match, txt, 1))]
    ELSE background_from(p + 1, txt)

\* for pattern in background_patterns ... break, from pattern p on
background_from(p, txt) ==
    IF p > Len(background_patterns)
    THEN [raised |-> FALSE, value |-> <<>>]
    ELSE background_of(search(background_patterns[p], txt, DotAll), p, txt)

\* if header_section: the first paragraph after JUDGMENT is the background
header_background(header_section, first, txt) ==
    IF header_section.ok
    THEN [raised |-> match_missing(header_section, {1}),
          value  |-> strip(group(header_section, txt, 1))]
    ELSE first

\* if not result["case_background"]: the fallback to the header section
fallback_background(first, txt) ==
    IF ~first.raised /\ first.value = <<>>
    THEN header_background(search(header_pattern, txt, DotAll), first, txt)
    ELSE first

\* (faulty variant) the whole text taken as the background when no heading is found
case_background_whole_text(txt) ==
    LET first == background_from(1, txt)
    IN  IF ~first.raised /\ first.value = <<>>
        THEN LET header_section == search(header_pattern, txt, DotAll)
             IN  IF header_section.ok
                 THEN [raised |-> match_missing(header_section, {1}),
                       value  |-> strip(group(header_section, txt, 1))]
                 ELSE [raised |-> FALSE, value |-> strip(txt)]
        ELSE first

\* result["case_background"] after the fallback
case_background(txt) == fallback_background(background_from(1, txt), txt)

constitutional_issues(txt) ==
    (IF Contains(lower(txt), <<"c","o","n","s","t","i","t","u","t","i","o","n","a","l"," ","v","a","l","i","d","i","t","y">>)
     THEN <<<<"C","o","n","s","t","i","t","u","t","i","o","n","a","l"," ","v","a","l","i","d","i","t","y"," ","o","f"," ","s","t","a","t","e"," ","l","e","g","i","s","l","a","t","i","o","n">>>>
     ELSE <<>>)
    \o
    (IF Contains(lower(txt), <<"j","u","r","i","s","d","i","c","t","i","o","n">>) /\ Contains(lower(txt), <<"h","i","g","h"," ","c","o","u","r","t">>)
     THEN <<<<"J","u","r","i","s","d","i","c","t","i","o","n"," ","o","f"," ","H","i","g","h"," ","C","o","u","r","t","s">>>>
     ELSE <<>>)

\* result, from the background found
background_info_of(background, txt) ==
    [raised                |-> background.raised,
     case_background       |-> background.value,
     constitutional_issues |-> constitutional_issues(txt),
     challenged_acts       |-> findall(act_pattern, background.value, NoFlags)]

extract_case_background(txt) == background_info_of(case_background(txt), txt)

(***************************************************************************)
(* Inputs: the texts of the uploaded documents.                            *)
(***************************************************************************)
CitationFragments == <<
    <<"A","p","p","e","a","l"," ","(","c","i","v","i","l",")"," ","1","2","3"," ","o","f"," ","2","0","2","0","\n">>,
    <<"A","p","p","e","a","l"," "," ","(","c","i","v","i","l",")","\n","4","5"," ","o","f"," ","2","0","1","7"," ">>,
    <<"a","p","p","e","a","l"," ","(","c","i","v","i","l",")"," ","9"," ","o","f"," ","2","0","2","1","\n">>,
    <<"C","i","v","i","l"," ","A","p","p","e","a","l"," ","N","o","."," ","5","-","6"," ","o","f"," ","2","0","1","9","\n">>,
    <<"C","i","v","i","l"," "," ","A","p","p","e","a","l"," ","N","o","s",".","7"," ","o","f"," ","2","0","1","8","\n">>,
    <<"C","i","v","i","l"," ","A","p","p","e","a","l"," ","N","o","s","."," ","1","0"," ","o","f"," ","2","0","0","5","\n">>,
    <<"T","r","a","n","s","f","e","r"," ","C","a","s","e"," ","(","C","i","v","i","l",")"," ","N","o","s","."," ","8"," ","o","f"," ","2","0","0","1","\n">>
>>

DateFragments == <<
    <<"D","a","t","e","d",":"," ","5","t","h"," ","M","a","y",","," ","2","0","2","0","\n">>,
    <<"D","A","T","E"," ","O","F"," ","J","U","D","G","M","E","N","T",":"," ","0","1","/","0","2","/","2","0","2","0","\n">>,
    <<"J","u","d","g","m","e","n","t"," ","d","e","l","i","v","e","r","e","d"," ","o","n"," ",":"," ","1","2"," ","M","a","y",","," ","2","0","1","9","\n">>,
    <<"D","a","t","e"," ","o","f"," ","j","u","d","g","m","e","n","t",":"," ","3","/","4","/","2","0","2","0","\n">>
>>

PartyFragments == <<
    <<"P","E","T","I","T","I","O","N","E","R",":"," ","A","l","\n">>,
    <<"R","e","s","p","o","n","d","e","n","t",":"," ","B","o","\n">>,
    <<"C","y"," ","V","e","r","s","u","s"," ","D","i","\n">>,
    <<"W","I","T","H","\n","C","i","v","i","l"," ","A","p","p","e","a","l"," ","N","o","."," ","3"," ","o","f"," ","2","0","1","6","\n","E","d","\n",".",".",".","\n","V","e","r","s","u","s","\n","F","a","y","\n","\n">>
>>

BackgroundFragments == <<
    <<"J","U","D","G","M","E","N","T","\n","\n","T","h","e"," ","P","e","n","a","l"," ","C","o","d","e"," ","A","c","t",","," ","1","8","6","0","\n">>,
    <<"T","h","e"," ","C","o","n","s","t","i","t","u","t","i","o","n","a","l"," ","v","a","l","i","d","i","t","y"," ","o","f"," ","T","a","x"," ","A","c","t",","," ","1","9","5","6","\n","1","."," ","x">>,
    <<"F","A","C","T","S","\n","H","i","g","h"," ","C","o","u","r","t"," ","j","u","r","i","s","d","i","c","t","i","o","n","\n","H","E","L","D",":"," ","n","o","\n">>,
    <<"J","U","D","G","M","E","N","T"," ","e","t","c","\n","L","e","a","v","e"," ","g","r","a","n","t","e","d",".","\n","\n","x">>
>>

FragmentGroups ==
    {CitationFragments, DateFragments, PartyFragments, BackgroundFragments}

RECURSIVE Join(_, _)
Join(frags, fs) ==
    IF fs = <<>> THEN <<>> ELSE frags[Head(fs)] \o Join(frags, Tail(fs))

\* the ways to take n fragments out of m, repetitions allowed, in list order
Picks(m, n) ==
    {fs \in [1..n -> 1..m] : \A j \in 1..n : \A k \in j..n : fs[j] <= fs[k]}

\* concatenations of at most MaxFrags fragments of one group
FragTexts ==
    UNION {{Join(frags, fs) :
               fs \in UNION {Picks(Len(frags), n) : n \in 0..MaxFrags}} :
           frags \in FragmentGroups}

\* party names and dates for texts of the labelled form
Names == {<<" ","B","o"," "," ">>, <<"U"," ","o","f","\n","I"," ">>, <<"N","o"," ","R","E","S","P","O","N","D","E","N","T">>, <<>>}
Dates == {<<"0","1","/","0","1","/","2","0","2","0">>, <<>>}

PartyText(P, R, D) ==
    <<"P","E","T","I","T","I","O","N","E","R",":"," ">> \o P \o <<"\n","R","E","S","P","O","N","D","E","N","T",":"," ">> \o R \o <<"\n","D","A","T","E"," ","O","F"," ","J","U","D","G","M","E","N","T",":"," ">> \o D

PartyTexts == {PartyText(P, R, D) : P \in Names, R \in Names, D \in Dates}

\* the texts of the documents of batches of several files
BatchTexts ==
    {CitationFragments[1] \o CitationFragments[4],
     PartyFragments[1] \o DateFragments[1]}

AllTexts == FragTexts \cup PartyTexts \cup BatchTexts

\* what the environment makes fail for a file: pdf_file.read(), tmp.write(),
\* fitz.open()/get_text()
Faults == {"none", "read", "pdf"}

UploadedFile(name, txt, fault) == [name |-> name, text |-> txt, fault |-> fault]

Batches ==
    {<<UploadedFile(1, txt, "none")>> : txt \in FragTexts \cup PartyTexts}
    \cup
    UNION {
        {[k \in 1..n |-> UploadedFile(k, f[k][1], f[k][2])] :
            f \in [1..n -> BatchTexts \X Faults]} : n \in 1..MaxFiles}

(***************************************************************************)
(* The extractors on the texts of the model, each evaluated once per text. *)
(***************************************************************************)
ExtractedCaseNumbers    == [txt \in AllTexts |-> extract_case_numbers(txt)]
ExtractedParties        == [txt \in AllTexts |-> extract_parties(txt)]
ExtractedJudgmentDate   == [txt \in AllTexts |-> extract_judgment_date(txt)]
ExtractedCaseBackground == [txt \in AllTexts |-> extract_case_background(txt)]

(***************************************************************************)
(* State.                                                                  *)
(***************************************************************************)
VARIABLES
    uploaded_files,   \* st.file_uploader(...): the batch, in upload order
    i,                \* index of the for loop of main(), from 1
    pc,               \* position in main() / extract_court_case_info()
    tmp_files,        \* temporary files that exist, named by the call that made them
    exc,              \* the exception being raised, or "none"
    text,             \* locals of extract_court_case_info
    case_numbers,
    parties,
    judgment_date,
    background_info,
    result,
    results,          \* main(): results
    errors            \* main(): the st.error(...) messages shown

vars == <<uploaded_files, i, pc, tmp_files, exc, text, case_numbers, parties,
          judgment_date, background_info, result, results, errors>>

locals == <<text, case_numbers, parties, judgment_date, background_info>>

uploaded_file == uploaded_files[i]

Init ==
    /\ uploaded_files \in Batches
    /\ i = 1
    /\ pc = "for"
    /\ tmp_files = {}
    /\ exc = "none"
    /\ text = None
    /\ case_numbers = None
    /\ parties = None
    /\ judgment_date = None
    /\ background_info = None
    /\ result = None
    /\ results = <<>>
    /\ errors = <<>>

\* for i, uploaded_file in enumerate(uploaded_files): status_text.info(...)
ForNext ==
    /\ pc = "for"
    /\ i <= Len(uploaded_files)
    /\ pc' = "tmp_create"
    /\ UNCHANGED <<uploaded_files, i, tmp_files, exc, locals, result, results, errors>>

\* the loop is over: status_text.empty(), progress_bar.empty(), st.success(...)
ForEnd ==
    /\ pc = "for"
    /\ i > Len(uploaded_files)
    /\ pc' = "done"
    /\ UNCHANGED <<uploaded_files, i, tmp_files, exc, locals, result, results, errors>>

\* with tempfile.NamedTemporaryFile(delete=False, suffix=".pdf") as tmp:
TmpCreate ==
    /\ pc = "tmp_create"
    /\ tmp_files' = tmp_files \cup {i}
    /\ pc' = "tmp_write"
    /\ UNCHANGED <<uploaded_files, i, exc, locals, result, results, errors>>

\* tmp.write(pdf_file.read()); tmp_path = tmp.name.  An exception leaves the
\* with block, which closes the file (delete=False), before the try is entered.
TmpWrite ==
    /\ pc = "tmp_write"
    /\ IF uploaded_file.fault = "read"
       THEN exc' = uploaded_file.fault /\ pc' = "except"
       ELSE exc' = exc /\ pc' = "extract_text"
    /\ UNCHANGED <<uploaded_files, i, tmp_files, locals, result, results, errors>>

\* text = extract_text_from_pdf(tmp_path)
ExtractTextFromPdf ==
    /\ pc = "extract_text"
    /\ IF uploaded_file.fault = "pdf"
       THEN exc' = "pdf" /\ pc' = "finally" /\ text' = text
       ELSE exc' = exc /\ pc' = "extract_case_numbers" /\ text' = uploaded_file.text
    /\ UNCHANGED <<uploaded_files, i, tmp_files, case_numbers, parties,
                   judgment_date, background_info, result, results, errors>>

\* case_numbers = extract_case_numbers(text)
ExtractCaseNumbers ==
    /\ pc = "extract_case_numbers"
    /\ \E r \in {ExtractedCaseNumbers[text]} :
           IF r.raised
           THEN exc' = "extractor" /\ pc' = "finally" /\ case_numbers' = case_numbers
           ELSE /\ exc' = exc
                /\ pc' = "extract_parties"
                /\ case_numbers' = [primary |-> r.primary, related |-> r.related]
    /\ UNCHANGED <<uploaded_files, i, tmp_files, text, parties, judgment_date,
                   background_info, result, results, errors>>

\* parties = extract_parties(text)
ExtractParties ==
    /\ pc = "extract_parties"
    /\ \E r \in {ExtractedParties[text]} :
           IF r.raised
           THEN exc' = "extractor" /\ pc' = "finally" /\ parties' = parties
           ELSE /\ exc' = exc
                /\ pc' = "extract_judgment_date"
                /\ parties' = [main |-> r.main, consolidated |-> r.consolidated]
    /\ UNCHANGED <<uploaded_files, i, tmp_files, text, case_numbers, judgment_date,
                   background_info, result, results, errors>>

\* judgment_date = extract_judgment_date(text)
ExtractJudgmentDate ==
    /\ pc = "extract_judgment_date"
    /\ \E r \in {ExtractedJudgmentDate[text]} :
           IF r.raised
           THEN exc' = "extractor" /\ pc' = "finally" /\ judgment_date' = judgment_date
           ELSE /\ exc' = exc
                /\ pc' = "extract_case_background"
                /\ judgment_date' = r.value
    /\ UNCHANGED <<uploaded_files, i, tmp_files, text, case_numbers, parties,
                   background_info, result, results, errors>>

\* background_info = extract_case_background(text)
ExtractCaseBackground ==
    /\ pc = "extract_case_background"
    /\ \E r \in {ExtractedCaseBackground[text]} :
           IF r.raised
           THEN /\ exc' = "extractor" /\ pc' = "finally"
                /\ background_info' = background_info
           ELSE /\ exc' = exc
                /\ pc' = "compile"
                /\ background_info' =
                       [case_background       |-> r.case_background,
                        constitutional_issues |-> r.constitutional_issues,
                        challenged_acts       |-> r.challenged_acts]
    /\ UNCHANGED <<uploaded_files, i, tmp_files, text, case_numbers, parties,
                   judgment_date, result, results, errors>>

\* (faulty variant) the related list shared between calls: each call appends to the
\* list the call before it returned
CompileShared ==
    /\ pc = "compile"
    /\ result' = [primary_case_number   |-> case_numbers.primary,
                  related_case_numbers  |->
                      (IF results = <<>> THEN <<>>
                       ELSE results[Len(results)].extraction_result.related_case_numbers)
                      \o case_numbers.related,
                  main_parties          |-> parties.main,
                  consolidated_cases    |-> parties.consolidated,
                  judgment_date         |-> judgment_date,
                  case_background       |-> background_info.case_background,
                  constitutional_issues |-> background_info.constitutional_issues,
                  challenged_acts       |-> background_info.challenged_acts]
    /\ pc' = "finally"
    /\ UNCHANGED <<uploaded_files, i, tmp_files, exc, locals, results, errors>>

\* result = {...}
Compile ==
    /\ pc = "compile"
    /\ result' = [primary_case_number   |-> case_numbers.primary,
                  related_case_numbers  |-> case_numbers.related,
                  main_parties          |-> parties.main,
                  consolidated_cases    |-> parties.consolidated,
                  judgment_date         |-> judgment_date,
                  case_background       |-> background_info.case_background,
                  constitutional_issues |-> background_info.constitutional_issues,
                  challenged_acts       |-> background_info.challenged_acts]
    /\ pc' = "finally"
    /\ UNCHANGED <<uploaded_files, i, tmp_files, exc, locals, results, errors>>

\* finally: os.unlink(tmp_path); then return result, or the exception goes on
Finally ==
    /\ pc = "finally"
    /\ tmp_files' = tmp_files \ {i}
    /\ pc' = IF exc = "none" THEN "store" ELSE "except"
    /\ text' = None
    /\ case_numbers' = None
    /\ parties' = None
    /\ judgment_date' = None
    /\ background_info' = None
    /\ UNCHANGED <<uploaded_files, i, exc, result, results, errors>>

\* formatted_output = format_output(extraction_result); results.append({...});
\* progress_bar.progress(...).  formatted_output is a rendering of
\* extraction_result and is not kept in the model.
Store ==
    /\ pc = "store"
    /\ results' = Append(results, [filename          |-> uploaded_file.name,
                                   extraction_result |-> result])
    /\ result' = None
    /\ i' = i + 1
    /\ pc' = "for"
    /\ UNCHANGED <<uploaded_files, tmp_files, exc, locals, errors>>

\* (faulty variant) the exception handled outside the for loop: the batch stops at the
\* first file that fails
ExceptAbort ==
    /\ pc = "except"
    /\ errors' = Append(errors, [filename |-> uploaded_file.name, error |-> exc])
    /\ exc' = "none"
    /\ pc' = "done"
    /\ UNCHANGED <<uploaded_files, i, tmp_files, locals, result, results>>

\* except Exception as e: st.error(f"Error processing {uploaded_file.name}: ...")
Except ==
    /\ pc = "except"
    /\ errors' = Append(errors, [filename |-> uploaded_file.name, error |-> exc])
    /\ exc' = "none"
    /\ i' = i + 1
    /\ pc' = "for"
    /\ UNCHANGED <<uploaded_files, tmp_files, locals, result, results>>

Next ==
    \/ ForNext
    \/ ForEnd
    \/ TmpCreate
    \/ TmpWrite
    \/ ExtractTextFromPdf
    \/ ExtractCaseNumbers
    \/ ExtractParties
    \/ ExtractJudgmentDate
    \/ ExtractCaseBackground
    \/ Compile
    \/ Finally
    \/ Store
    \/ Except

Spec == Init /\ [][Next]_vars

(***************************************************************************)
(* Properties.                                                             *)
(***************************************************************************)
\* the matches of each citation pattern, each date pattern and each of the
\* other patterns in each text of the model
CitationMatches == [txt \in AllTexts |-> pattern_matches(1, txt)]

RECURSIVE date_matches(_, _)
date_matches(p, txt) ==
    IF p > Len(date_patterns)
    THEN <<>>
    ELSE <<search(date_patterns[p], txt, IgnoreCase)>> \o date_matches(p + 1, txt)

DateMatches == [txt \in AllTexts |-> date_matches(1, txt)]

FullCitations(cs) == [k \in 1..Len(cs) |-> cs[k].full_citation]

MatchedTexts(ms, txt) == [k \in 1..Len(ms) |-> group(ms[k], txt, 0)]

RECURSIVE Flatten(_)
Flatten(ss) == IF ss = <<>> THEN <<>> ELSE Head(ss) \o Flatten(Tail(ss))

AnyCitation(txt) == \E p \in 1..Len(patterns) : CitationMatches[txt][p] # <<>>

\* the position after extract_case_numbers has returned
AfterCaseNumbers == pc = "extract_parties"

IsOk(f)     == f.fault = "none"
IsFailed(f) == f.fault # "none"
UploadNames(fs) == [k \in 1..Len(fs) |-> fs[k].name]
FileNames(rs)   == [k \in 1..Len(rs) |-> rs[k].filename]

\* C1: when the batch is over, every file whose processing raised has exactly
\* one error and no record, every other file has its record, and the records
\* are in upload order.
C1_BatchIsolation ==
    pc = "done" =>
        /\ FileNames(errors)  = UploadNames(SelectSeq(uploaded_files, IsFailed))
        /\ FileNames(results) = UploadNames(SelectSeq(uploaded_files, IsOk))
        /\ \A k \in 1..Len(results) :
               results[k].extraction_result # None

C1_Witness ==
    /\ pc = "done"
    /\ Len(uploaded_files) = 3
    /\ uploaded_files[1].fault = "none"
    /\ uploaded_files[2].fault = "pdf"
    /\ uploaded_files[3].fault = "none"
    /\ FileNames(results) = <<1, 3>>
    /\ FileNames(errors) = <<2>>

\* C2 (as claimed): whenever one of the citation patterns matches the text,
\* the primary case number is not null.
C2_PrimaryWheneverAnyPatternMatches ==
    AfterCaseNumbers => (AnyCitation(text) => case_numbers.primary # None)

\* C2 (amended): the primary case number is taken from the first pattern,
\* "Appeal (civil) N of YYYY", alone: it is non-null exactly when that pattern
\* matches, and then carries the number and year of its leftmost match.
C2_PrimaryFromFirstPatternOnly ==
    AfterCaseNumbers =>
        LET ms == CitationMatches[text][1]
        IN  IF ms = <<>>
            THEN case_numbers.primary = None
            ELSE /\ case_numbers.primary # None
                 /\ case_numbers.primary.sequential_number = group(ms[1], text, 1)
                 /\ case_numbers.primary.year = group(ms[1], text, 2)

C2_Witness ==
    /\ AfterCaseNumbers
    /\ CitationMatches[text][1] = <<>>
    /\ CitationMatches[text][2] # <<>>
    /\ case_numbers.primary = None

\* C3: the full_citation of every citation returned, primary or related, is
\* the substring of the text that the pattern matched.
C3_FullCitationIsMatchedText ==
    AfterCaseNumbers =>
        /\ case_numbers.primary # None =>
               case_numbers.primary.full_citation
                   = group(CitationMatches[text][1][1], text, 0)
        /\ \A k \in 1..Len(case_numbers.related) :
               \E p \in 1..Len(patterns) :
                   \E j \in 1..Len(CitationMatches[text][p]) :
                       case_numbers.related[k].full_citation
                           = group(CitationMatches[text][p][j], text, 0)

\* the matches of pattern p that are kept as related when the only match left
\* out is the one at the primary match's position
RECURSIVE KeptBySpan(_, _)
KeptBySpan(ms, pm) ==
    IF ms = <<>> THEN <<>>
    ELSE (IF pm.ok /\ Head(ms).start = pm.start THEN <<>> ELSE <<Head(ms)>>)
         \o KeptBySpan(Tail(ms), pm)

\* the matches of pattern p that are kept as related when every match with
\* the primary match's text is left out
RECURSIVE KeptByText(_, _, _)
KeptByText(ms, pm, txt) ==
    IF ms = <<>> THEN <<>>
    ELSE (IF pm.ok /\ group(Head(ms), txt, 0) = group(pm, txt, 0)
          THEN <<>> ELSE <<Head(ms)>>)
         \o KeptByText(Tail(ms), pm, txt)

FirstMatch(ms) == IF ms = <<>> THEN NoMatch ELSE ms[1]

\* C4 (as claimed): related has one entry for every match of every pattern
\* except the single match whose span is the primary citation.
C4_RelatedAllButPrimarySpan ==
    AfterCaseNumbers =>
        LET ms == CitationMatches[text]
        IN  FullCitations(case_numbers.related)
                = MatchedTexts(KeptBySpan(ms[1], FirstMatch(ms[1]))
                               \o Flatten(Tail(ms)), text)

\* C4 (amended): related has one entry, in pattern order and then text order,
\* for every match of every pattern except the matches of the first pattern
\* whose matched text equals the primary match's text: every repetition of
\* the primary citation's exact text is left out with it, and all other
\* repeated citations are kept as separate entries.
C4_RelatedAllButPrimaryText ==
    AfterCaseNumbers =>
        LET ms == CitationMatches[text]
        IN  FullCitations(case_numbers.related)
                = MatchedTexts(KeptByText(ms[1], FirstMatch(ms[1]), text)
                               \o Flatten(Tail(ms)), text)

C4_Witness ==
    /\ AfterCaseNumbers
    /\ Len(CitationMatches[text][1]) = 2
    /\ group(CitationMatches[text][1][1], text, 0)
           = group(CitationMatches[text][1][2], text, 0)
    /\ case_numbers.related = <<>>

\* C5: when none of the citation patterns matches the text, the primary case
\* number is null and the related list is empty.
C5_NoCitationNoCaseNumbers ==
    AfterCaseNumbers =>
        (~AnyCitation(text) =>
            case_numbers.primary = None /\ case_numbers.related = <<>>)

C5_Witness ==
    /\ AfterCaseNumbers
    /\ text = CitationFragments[3]
    /\ ~AnyCitation(text)
    /\ case_numbers = [primary |-> None, related |-> <<>>]

\* C6: the judgment date is the captured text of the first date pattern, in
\* list order, that matches anywhere in the text, and "Date not found" when
\* none matches.
C6_FirstDatePatternWins ==
    pc = "extract_case_background" =>
        LET ms   == DateMatches[text]
            hits == {p \in 1..Len(ms) : ms[p].ok}
        IN  IF hits = {}
            THEN judgment_date = date_not_found
            ELSE judgment_date
                     = group(ms[CHOOSE p \in hits : \A q \in hits : p <= q], text, 1)

C6_Witness ==
    /\ pc = "extract_case_background"
    /\ DateMatches[text][1].ok
    /\ DateMatches[text][2].ok
    /\ DateMatches[text][2].start < DateMatches[text][1].start
    /\ judgment_date = group(DateMatches[text][1], text, 1)
    /\ judgment_date # group(DateMatches[text][2], text, 1)

Labels == {<<"P","E","T","I","T","I","O","N","E","R",":">>, <<"A","P","P","E","L","L","A","N","T",":">>, <<"R","E","S","P","O","N","D","E","N","T",":">>, <<"D","A","T","E"," ","O","F"," ","J","U","D","G","M","E","N","T",":">>}

HasLabel(s) == \E l \in Labels : Contains(lower(s), lower(l))

\* C7: for a text "PETITIONER: P\nRESPONDENT: R\nDATE OF JUDGMENT: D" whose
\* names hold none of the labels, the main parties are exactly P as
\* Petitioner and then R as Respondent, the names trimmed and free of labels.
C7_LabelledParties ==
    pc = "extract_judgment_date" =>
        \A P \in Names : \A R \in Names : \A D \in Dates :
            (~HasLabel(P) /\ ~HasLabel(R) /\ text = PartyText(P, R, D)) =>
                /\ parties.main = <<Party(strip(P), <<"P","e","t","i","t","i","o","n","e","r">>),
                                    Party(strip(R), <<"R","e","s","p","o","n","d","e","n","t">>)>>
                /\ \A k \in 1..2 : ~HasLabel(parties.main[k].name)

C7_Witness ==
    /\ pc = "extract_judgment_date"
    /\ text = PartyText(<<" ","B","o"," "," ">>, <<"U"," ","o","f","\n","I"," ">>, <<"0","1","/","0","1","/","2","0","2","0">>)
    /\ parties.main = <<Party(<<"B","o">>, <<"P","e","t","i","t","i","o","n","e","r">>),
                        Party(<<"U"," ","o","f","\n","I">>, <<"R","e","s","p","o","n","d","e","n","t">>)>>

\* which of the party and background patterns match each text of the model
PartyMatches ==
    [txt \in AllTexts |->
        [petitioner |-> search(petitioner_pattern, txt, DotAllIgnoreCase).ok,
         respondent |-> search(respondent_pattern, txt, DotAllIgnoreCase).ok,
         versus     |-> search(versus_pattern, txt, NoFlags).ok,
         sections   |-> search(consolidated_pattern, txt, DotAll).ok]]

BackgroundMatches ==
    [txt \in AllTexts |->
        [heading |-> \E p \in 1..Len(background_patterns) :
                         search(background_patterns[p], txt, DotAll).ok,
         header  |-> search(header_pattern, txt, DotAll).ok]]

\* the record of a document in which nothing is found
EmptyRecord ==
    [primary_case_number   |-> None,
     related_case_numbers  |-> <<>>,
     main_parties          |-> <<>>,
     consolidated_cases    |-> <<>>,
     judgment_date         |-> <<"D","a","t","e"," ","n","o","t"," ","f","o","u","n","d">>,
     case_background       |-> <<>>,
     constitutional_issues |-> <<>>,
     challenged_acts       |-> <<>>]

\* the position after the four extractors have returned and result is built
Compiled == pc = "finally" /\ exc = "none"

\* C8: no field extractor raises, whatever the text; each field is empty or
\* the sentinel when its own patterns do not match, whatever the other fields
\* are; and the record of the empty text is the empty record.
C8_ExtractorsTotalWithFallbacks ==
    /\ exc # "extractor"
    /\ Compiled =>
        /\ ~AnyCitation(text) =>
               /\ result.primary_case_number = None
               /\ result.related_case_numbers = <<>>
        /\ (~PartyMatches[text].petitioner /\ ~PartyMatches[text].respondent) =>
               result.main_parties = <<>>
        /\ (~PartyMatches[text].versus /\ ~PartyMatches[text].sections) =>
               result.consolidated_cases = <<>>
        /\ (\A p \in 1..Len(date_patterns) : ~DateMatches[text][p].ok) =>
               result.judgment_date = <<"D","a","t","e"," ","n","o","t"," ","f","o","u","n","d">>
        /\ (~BackgroundMatches[text].heading /\ ~BackgroundMatches[text].header) =>
               /\ result.case_background = <<>>
               /\ result.challenged_acts = <<>>
        /\ (/\ ~Contains(lower(text), <<"c","o","n","s","t","i","t","u","t","i","o","n","a","l"," ","v","a","l","i","d","i","t","y">>)
            /\ ~(/\ Contains(lower(text), <<"j","u","r","i","s","d","i","c","t","i","o","n">>)
                 /\ Contains(lower(text), <<"h","i","g","h"," ","c","o","u","r","t">>))) =>
               result.constitutional_issues = <<>>
        /\ text = <<>> => result = EmptyRecord

C8_Witness ==
    /\ Compiled
    /\ text = <<>>
    /\ result = EmptyRecord

SameText(j, k) ==
    uploaded_files[results[j].filename].text = uploaded_files[results[k].filename].text

\* C9: the record of a document depends on its text alone: two documents of
\* a batch with the same text have the same record, wherever they stand in
\* the batch and whatever the other documents are or do.
C9_RecordDependsOnTextOnly ==
    \A j \in 1..Len(results) : \A k \in 1..Len(results) :
        SameText(j, k) =>
            results[j].extraction_result = results[k].extraction_result

C9_Witness ==
    /\ pc = "done"
    /\ Len(uploaded_files) = 3
    /\ uploaded_files[1].text = uploaded_files[3].text
    /\ uploaded_files[2].text # uploaded_files[1].text
    /\ FileNames(results) = <<1, 2, 3>>
    /\ results[1].extraction_result.related_case_numbers # <<>>
    /\ results[1].extraction_result = results[3].extraction_result
    /\ results[1].extraction_result # results[2].extraction_result

\* C10: when a call of extract_court_case_info has ended, by return or by
\* exception, the temporary file it created is gone.
C10_NoTempFileLeft ==
    pc \in {"store", "except", "for", "done"} => tmp_files = {}

\* the type that each citation pattern stands for, in the order of patterns
PatternTypes ==
    <<<<"A","p","p","e","a","l">>, <<"C","i","v","i","l"," ","A","p","p","e","a","l">>, <<"T","r","a","n","s","f","e","r"," ","C","a","s","e"," ","(","C","i","v","i","l",")">>, <<"C","i","v","i","l"," ","A","p","p","e","a","l">>>>

\* the type of pattern p, once for each of n matches
TypeOfPattern(p, n) == [k \in 1..n |-> PatternTypes[p]]

Types(cs) == [k \in 1..Len(cs) |-> cs[k].type]

\* C11: the type of every related citation is the type of the pattern that
\* produced its match, whatever whitespace the pattern accepted between the
\* words of the citation.
C11_RelatedTypeAgreesWithPattern ==
    AfterCaseNumbers =>
        LET ms == CitationMatches[text]
        IN  Types(case_numbers.related)
                = TypeOfPattern(1, Len(KeptByText(ms[1], FirstMatch(ms[1]), text)))
                  \o TypeOfPattern(2, Len(ms[2]))
                  \o TypeOfPattern(3, Len(ms[3]))
                  \o TypeOfPattern(4, Len(ms[4]))

====
